---- MODULE Spec2Model ----
(***************************************************************************)
(* Model of ai/enhance.py: the enrichment pipeline of daily-arXiv.         *)
(*                                                                         *)
(* main() reads the records, removes repeated ids, hands every record to a *)
(* ThreadPoolExecutor running process_single_item, collects the futures    *)
(* with as_completed into a pre-sized list and writes it out.              *)
(*                                                                         *)
(* Text (the message of an exception, a JSON payload) is a sequence of     *)
(* tokens.  Two tokens stand for the substrings the repair code searches   *)
(* for; the others are single characters or JSON literals.                 *)
(***************************************************************************)
EXTENDS Integers, Sequences, FiniteSets, TLC

(***************************************************************************)
(* Bounds of the model.                                                    *)
(***************************************************************************)
MaxItems == 2       \* longest input file of a pipeline run, in records
MaxRaw == 4         \* longest input file of a deduplication run, in records
MaxId == 2          \* ids are drawn from 1..MaxId
MaxWorkers == 2     \* --max_workers is drawn from 1..MaxWorkers
MaxMsgLen == 4      \* longest exception text, in tokens (SpecItem)
MaxEnvLen == 3      \* longest API_DELAY_SECONDS setting, in characters
MaxPathLen == 3     \* longest --data path, in tokens

(***************************************************************************)
(* Tokens of a text.                                                       *)
(***************************************************************************)
MARKER == "Function Structure arguments:"
TAILPHRASE == "are not valid JSON"
WS == " "
BSL == "\\"
QUOTE == "q"         \* the double quote character
LETTER == "a"        \* a character that is no JSON escape letter
NULLLIT == "null"    \* the JSON literal null
OBJLIT == "{...}"    \* the text of a well-formed JSON object

Chars == {MARKER, TAILPHRASE, WS, BSL, QUOTE, LETTER, NULLLIT, OBJLIT}

Texts(n) == UNION {[1..k -> Chars] : k \in 0..n}

(***************************************************************************)
(* Values of the AI field.  "absent": the record has no AI key; "null":    *)
(* Python None; "str": a decoded JSON string; "obj": a mapping whose       *)
(* values are listed in the order tldr, motivation, method, result,        *)
(* conclusion.                                                             *)
(***************************************************************************)
NoAI == [t |-> "absent", v |-> <<>>]
NullV == [t |-> "null", v |-> <<>>]
StrV(s) == [t |-> "str", v |-> <<s>>]
ObjV(tldr, motivation, method, result, conclusion) ==
    [t |-> "obj", v |-> <<tldr, motivation, method, result, conclusion>>]

\* response.model_dump() of a Structure the service returned
ModelDump == ObjV(<<"s">>, <<"s">>, <<"s">>, <<"s">>, <<"s">>)
\* what the object literal of a payload decodes to
DecodedObj == ObjV(<<"p">>, <<"p">>, <<"p">>, <<"p">>, <<"p">>)

ErrorSentinel ==
    ObjV(<<"Error">>, <<"Error">>, <<"Error">>, <<"Error">>, <<"Error">>)
UnexpectedSentinel(msg) ==
    ObjV(<<"Unexpected Error">>, msg, <<"N/A">>, <<"N/A">>, <<"N/A">>)

(***************************************************************************)
(* String operations used by the repair path.                              *)
(***************************************************************************)
\* position of the first occurrence of tok in s, 0 when there is none
IndexOf(s, tok) ==
    IF \E i \in 1..Len(s) : s[i] = tok
    THEN CHOOSE i \in 1..Len(s) : s[i] = tok /\ \A j \in 1..(i-1) : s[j] # tok
    ELSE 0

\* "Function Structure arguments:" in error_msg
HasMarker(msg) == IndexOf(msg, MARKER) # 0

\* error_msg.split(MARKER, 1)[1]
AfterMarker(msg) == SubSeq(msg, IndexOf(msg, MARKER) + 1, Len(msg))

\* s.split('are not valid JSON')[0]
BeforeTail(s) ==
    IF IndexOf(s, TAILPHRASE) = 0 THEN s
    ELSE SubSeq(s, 1, IndexOf(s, TAILPHRASE) - 1)

RECURSIVE LStrip(_)
LStrip(s) == IF s # <<>> /\ Head(s) = WS THEN LStrip(Tail(s)) ELSE s

RECURSIVE RStrip(_)
RStrip(s) ==
    IF s # <<>> /\ s[Len(s)] = WS THEN RStrip(SubSeq(s, 1, Len(s) - 1)) ELSE s

\* s.strip()
Strip(s) == RStrip(LStrip(s))

\* the JSON string cut out of the error message
ExtractJsonStr(msg) == Strip(BeforeTail(Strip(AfterMarker(msg))))

\* what one backslash becomes in json_str.replace('\\', '\\\\')
EscapedBackslash == <<BSL, BSL>>

RECURSIVE EscapeBackslashes(_)
EscapeBackslashes(s) ==
    IF s = <<>> THEN <<>>
    ELSE (IF Head(s) = BSL THEN EscapedBackslash ELSE <<Head(s)>>)
         \o EscapeBackslashes(Tail(s))

(***************************************************************************)
(* json.loads on a token text: the literal null, an object literal, or a   *)
(* string between double quotes in which a backslash must be followed by a *)
(* backslash or a double quote.  Anything else raises.                     *)
(***************************************************************************)
DecodeFail == [ok |-> FALSE, val |-> NoAI]

RECURSIVE ScanString(_, _, _)
ScanString(s, i, acc) ==
    IF i > Len(s) THEN DecodeFail                       \* unterminated string
    ELSE IF s[i] = QUOTE
         THEN (IF i = Len(s) THEN [ok |-> TRUE, val |-> StrV(acc)]
               ELSE DecodeFail)                         \* extra data
    ELSE IF s[i] = BSL
         THEN (IF i + 1 <= Len(s) /\ s[i+1] \in {BSL, QUOTE}
               THEN ScanString(s, i + 2, Append(acc, s[i+1]))
               ELSE DecodeFail)                         \* invalid escape
    ELSE ScanString(s, i + 1, Append(acc, s[i]))

JsonLoads(s) ==
    LET d == Strip(s) IN
    IF d = <<NULLLIT>> THEN [ok |-> TRUE, val |-> NullV]
    ELSE IF d = <<OBJLIT>> THEN [ok |-> TRUE, val |-> DecodedObj]
    ELSE IF d # <<>> /\ d[1] = QUOTE THEN ScanString(d, 2, <<>>)
    ELSE DecodeFail

\* lines 65-69: the repair attempt on an error message that holds the marker
Repair(msg) == JsonLoads(EscapeBackslashes(ExtractJsonStr(msg)))

(***************************************************************************)
(* State.                                                                  *)
(***************************************************************************)
VARIABLES
    raw,             \* the records read from the input file, in file order
    pos,             \* position of the deduplication loop in raw
    seen_ids,        \* the ids the deduplication loop has met
    unique_data,     \* the records the deduplication loop has kept
    maxWorkers,      \* args.max_workers
    data,            \* the deduplicated records; workers change them in place
    mpc,             \* where the main thread is
    nextSubmit,      \* index of the next record the comprehension submits
    queue,           \* the executor's work queue: indices submitted, not started
    wk,              \* per worker thread: pc and the index of its work item
    fut,             \* per index: state of the future of that work item
    yielded,         \* indices of the futures as_completed has yielded, in order
    processed_data,  \* the result list: None or a reference to a record
    outFile,         \* the lines written to the target file
    sleeps,          \* per index: source lines of the time.sleep calls made
    calls,           \* per index: number of chain.invoke calls made
    writes,          \* per slot: number of assignments to processed_data[slot]
    log,             \* what was printed to sys.stderr
    ioFailed,        \* indices whose diagnostic print raised
    outcome,         \* per index: what chain.invoke did; the exception e
    envDelay,        \* the API_DELAY_SECONDS setting of the environment
    API_DELAY_SECONDS, \* the module global of that name
    spc,             \* where module start-up is
    dataPath,        \* args.data
    language,        \* the LANGUAGE setting
    target_file,     \* the derived output path
    files,           \* the files on disk: path |-> whose content it holds
    fpc              \* where main is with the files

vars == <<raw, pos, seen_ids, unique_data, maxWorkers, data, mpc, nextSubmit,
          queue, wk, fut, yielded,
          processed_data, outFile, sleeps, calls, writes, log, ioFailed,
          outcome, envDelay, API_DELAY_SECONDS, spc, dataPath, language,
          target_file, files, fpc>>

\* start-up and the handling of the file paths
setup == <<envDelay, API_DELAY_SECONDS, spc, dataPath, language, target_file,
           files, fpc>>

\* what the work on the records never changes
input == <<raw, pos, seen_ids, unique_data, maxWorkers, setup>>

\* everything process_all_items and the deduplication work on
pipeline == <<raw, pos, seen_ids, unique_data, maxWorkers, data, mpc,
              nextSubmit, queue, wk, fut, yielded, processed_data, outFile,
              sleeps, calls, writes, ioFailed, outcome>>

None == 0                       \* an empty slot of processed_data

\* line 129: ThreadPoolExecutor(max_workers=max_workers)
WorkersOneMore == 1..(maxWorkers + 1)
Workers == 1..maxWorkers
N == Len(data)

IdleWorker == [pc |-> "idle", idx |-> 0]

\* one line of the input file
Record(id, summary) == [id |-> id, summary |-> summary]

\* every input file of n records: an id each, the summary tells the lines apart
RawInputs(n) ==
    UNION { { [i \in 1..k |-> Record(ids[i], i)] : ids \in [1..k -> 1..MaxId] }
            : k \in 0..n }

(***************************************************************************)
(* main, lines 170-178: deduplication.                                     *)
(***************************************************************************)
\* line 174: item['id'] not in seen_ids
NotSeenNever(id, seen) == TRUE
NotSeen(id, seen) == id \notin seen

\* line 175: seen_ids.add(item['id'])
AddSeenForgets(seen, id) == seen
AddSeen(seen, id) == seen \cup {id}

\* lines 173-176: one turn of the loop
DedupIter ==
    /\ mpc = "dedup"
    /\ pos <= Len(raw)
    /\ LET item == raw[pos] IN
       IF NotSeen(item.id, seen_ids)
       THEN /\ seen_ids' = AddSeen(seen_ids, item.id)
            /\ unique_data' = Append(unique_data, item)
       ELSE UNCHANGED <<seen_ids, unique_data>>
    /\ pos' = pos + 1
    /\ UNCHANGED <<raw, maxWorkers, data, mpc, nextSubmit, queue, wk, fut,
                   yielded, processed_data, outFile, sleeps, calls, writes,
                   log, ioFailed, outcome, setup>>

(***************************************************************************)
(* What chain.invoke can do: return a Structure, raise an                  *)
(* OutputParserException, or raise another Exception; msg is str(e).       *)
(***************************************************************************)
NotCalled == [kind |-> "none", msg |-> <<>>]
Returned == [kind |-> "ok", msg |-> <<>>]
ParseFailure(msg) == [kind |-> "OutputParserException", msg |-> msg]
OtherFailure(msg) == [kind |-> "Exception", msg |-> msg]

\* the outcomes drawn in the pipeline runs
PipeOutcomes ==
    { Returned,
      ParseFailure(<<LETTER>>),
      ParseFailure(<<MARKER, NULLLIT, TAILPHRASE>>),
      ParseFailure(<<MARKER, QUOTE, BSL, QUOTE>>),
      ParseFailure(<<MARKER, LETTER, TAILPHRASE>>),
      OtherFailure(<<LETTER>>) }

\* the outcomes drawn in the single-record runs
ItemOutcomes ==
    {Returned} \cup {ParseFailure(m) : m \in Texts(MaxMsgLen)}
               \cup {OtherFailure(m) : m \in {<<>>, <<MARKER, NULLLIT>>}}

(***************************************************************************)
(* process_single_item, lines 48-113.                                      *)
(***************************************************************************)
\* which except clause takes an exception of the given class (lines 59, 88)
HandlerOfParseOnly(kind) ==
    IF kind = "OutputParserException" THEN "parse" ELSE "none"
HandlerOf(kind) ==
    IF kind = "OutputParserException" THEN "parse" ELSE "other"

\* where control goes after the time.sleep at a given line
AfterSleep(line) == IF line = 58 THEN "else" ELSE "return"

\* where control goes once json.loads has returned or raised (lines 69-75)
AfterRepairNoSleep(ok) == IF ok THEN "return" ELSE "print76"
AfterRepair(ok) == IF ok THEN "sleep73" ELSE "print76"

\* line 70: item['AI'] = fixed_data
RepairedAIDropped(fixed_data) == ErrorSentinel
RepairedAI(fixed_data) == fixed_data

\* lines 79-85: the annotation after a failed repair
FailedRepairAI == ErrorSentinel

\* lines 90-96: the annotation after any other exception
OtherFailureAINoMessage(msg) == UnexpectedSentinel(<<"N/A">>)
OtherFailureAI(msg) == UnexpectedSentinel(msg)

SleepLine(pc) ==
    CASE pc = "sleep58" -> 58
      [] pc = "sleep73" -> 73
      [] pc = "sleep87" -> 87
      [] pc = "sleep98" -> 98
      [] pc = "else" -> 111

SleepPcs == {"sleep58", "sleep73", "sleep87", "sleep98", "else"}

SetAIAll(i, v) == [j \in DOMAIN data |-> [data[j] EXCEPT !.AI = v]]
SetAI(i, v) == [data EXCEPT ![i].AI = v]

\* a free worker thread takes the oldest queued work item
Take(w) ==
    /\ wk[w].pc = "idle"
    /\ queue # <<>>
    /\ wk' = [wk EXCEPT ![w] = [pc |-> "invoke", idx |-> Head(queue)]]
    /\ queue' = Tail(queue)
    /\ fut' = [fut EXCEPT ![Head(queue)] = "running"]
    /\ UNCHANGED <<input, data, mpc, nextSubmit, yielded,
                   processed_data, outFile, sleeps, calls, writes, log, ioFailed,
                   outcome>>

\* the state of a future once its call has ended: it holds the returned
\* record or the exception, and as_completed can yield it
DoneStateLost(raised) == "running"
DoneState(raised) == IF raised THEN "raised" ELSE "returned"

\* an exception leaves process_single_item: the future holds it
Escape(w) ==
    /\ fut' = [fut EXCEPT ![wk[w].idx] = DoneState(TRUE)]
    /\ wk' = [wk EXCEPT ![w] = IdleWorker]

\* lines 50-55 and, when chain.invoke raises, the except clause up to its
\* first print or sleep (lines 59-70, 79-85, 88)
Invoke(w, outcomes) ==
    /\ wk[w].pc = "invoke"
    /\ \E o \in outcomes :
        LET i == wk[w].idx
            h == HandlerOf(o.kind)
        IN
        /\ calls' = [calls EXCEPT ![i] = @ + 1]
        /\ outcome' = [outcome EXCEPT ![i] = o]
        /\ IF o.kind = "ok"
           THEN /\ data' = SetAI(i, ModelDump)
                /\ wk' = [wk EXCEPT ![w].pc = "sleep58"]
                /\ UNCHANGED fut
           ELSE IF h = "parse"
           THEN IF HasMarker(o.msg)
                THEN LET fixed == Repair(o.msg)
                         to == AfterRepair(fixed.ok) IN
                     /\ data' = IF to = "sleep73"
                                THEN SetAI(i, RepairedAI(fixed.val))
                                ELSE data
                     /\ wk' = [wk EXCEPT ![w].pc = to]
                     /\ UNCHANGED fut
                ELSE /\ data' = SetAI(i, FailedRepairAI)
                     /\ wk' = [wk EXCEPT ![w].pc = "sleep87"]
                     /\ UNCHANGED fut
           ELSE IF h = "other"
           THEN /\ wk' = [wk EXCEPT ![w].pc = "print89"]
                /\ UNCHANGED <<data, fut>>
           ELSE /\ Escape(w)
                /\ UNCHANGED data
    /\ UNCHANGED <<input, mpc, nextSubmit, queue, yielded,
                   processed_data, outFile, sleeps, writes, log, ioFailed>>

\* lines 76, 79-85: print the repair failure, then the all-"Error" annotation.
\* The print is a write to sys.stderr, which can raise; nothing catches it.
Print76(w) ==
    /\ wk[w].pc = "print76"
    /\ \E written \in BOOLEAN :
        LET i == wk[w].idx IN
        IF written
        THEN /\ log' = log \cup {[line |-> 76, idx |-> i, id |-> data[i].id]}
             /\ data' = SetAI(i, FailedRepairAI)
             /\ wk' = [wk EXCEPT ![w].pc = "sleep87"]
             /\ UNCHANGED <<fut, ioFailed>>
        ELSE /\ Escape(w)
             /\ ioFailed' = ioFailed \cup {i}
             /\ UNCHANGED <<log, data>>
    /\ UNCHANGED <<input, mpc, nextSubmit, queue, yielded,
                   processed_data, outFile, sleeps, calls, writes, outcome>>

\* lines 89-96: print the unexpected error, then the annotation carrying str(e)
Print89(w) ==
    /\ wk[w].pc = "print89"
    /\ \E written \in BOOLEAN :
        LET i == wk[w].idx IN
        IF written
        THEN /\ log' = log \cup {[line |-> 89, idx |-> i, id |-> data[i].id]}
             /\ data' = SetAI(i, OtherFailureAI(outcome[i].msg))
             /\ wk' = [wk EXCEPT ![w].pc = "sleep98"]
             /\ UNCHANGED <<fut, ioFailed>>
        ELSE /\ Escape(w)
             /\ ioFailed' = ioFailed \cup {i}
             /\ UNCHANGED <<log, data>>
    /\ UNCHANGED <<input, mpc, nextSubmit, queue, yielded,
                   processed_data, outFile, sleeps, calls, writes, outcome>>

\* time.sleep(secs) raises OverflowError when secs does not fit the C time
\* type (2^63 - 1 nanoseconds, 9223372036 s).  That is beyond the integers of
\* the model checker, so the limit is scaled down; only whether the delay is
\* beyond it matters here.
MaxSleepSeconds == 100
Sleepable(secs) == secs <= MaxSleepSeconds

\* the OverflowError of time.sleep, as the except clause of line 88 sees it
SleepFailure == OtherFailure(<<"timestamp too large">>)

\* which except clause takes an exception raised by the time.sleep of a line:
\* line 58 is inside the try (line 88), line 73 inside the inner try (line
\* 75); nothing encloses lines 87, 98 and 111
SleepHandler(line) ==
    IF line = 58 THEN "other" ELSE IF line = 73 THEN "json" ELSE "none"

\* one time.sleep(API_DELAY_SECONDS): lines 58, 73, 87, 98, 111
Sleep(w) ==
    /\ wk[w].pc \in SleepPcs
    /\ LET i == wk[w].idx
           line == SleepLine(wk[w].pc)
       IN
       IF Sleepable(API_DELAY_SECONDS)
       THEN /\ sleeps' = [sleeps EXCEPT ![i] = Append(@, line)]
            /\ wk' = [wk EXCEPT ![w].pc = AfterSleep(line)]
            /\ UNCHANGED <<fut, outcome>>
       ELSE /\ UNCHANGED sleeps
            /\ IF SleepHandler(line) = "other"
               THEN /\ outcome' = [outcome EXCEPT ![i] = SleepFailure]
                    /\ wk' = [wk EXCEPT ![w].pc = "print89"]
                    /\ UNCHANGED fut
               ELSE IF SleepHandler(line) = "json"
               THEN /\ wk' = [wk EXCEPT ![w].pc = "print76"]
                    /\ UNCHANGED <<fut, outcome>>
               ELSE /\ Escape(w)
                    /\ UNCHANGED outcome
    /\ UNCHANGED <<input, data, mpc, nextSubmit, queue, yielded,
                   processed_data, outFile, calls, writes, log, ioFailed>>

\* lines 74, 113: return item; the future holds the record
Return(w) ==
    /\ wk[w].pc = "return"
    /\ fut' = [fut EXCEPT ![wk[w].idx] = DoneState(FALSE)]
    /\ wk' = [wk EXCEPT ![w] = IdleWorker]
    /\ UNCHANGED <<input, data, mpc, nextSubmit, queue, yielded,
                   processed_data, outFile, sleeps, calls, writes, log, ioFailed,
                   outcome>>

(***************************************************************************)
(* main and process_all_items: the main thread.                            *)
(***************************************************************************)
\* lines 178 and 128: data = unique_data, then the result list is
\* pre-allocated; the records of data have no AI key yet
DedupDone ==
    /\ mpc = "dedup"
    /\ pos > Len(raw)
    /\ LET n == Len(unique_data) IN
       /\ data' = [i \in 1..n |-> [id |-> unique_data[i].id,
                                   summary |-> unique_data[i].summary,
                                   AI |-> NoAI]]
       /\ processed_data' = [i \in 1..n |-> None]
       /\ fut' = [i \in 1..n |-> "new"]
       /\ sleeps' = [i \in 1..n |-> <<>>]
       /\ calls' = [i \in 1..n |-> 0]
       /\ writes' = [i \in 1..n |-> 0]
       /\ outcome' = [i \in 1..n |-> NotCalled]
    /\ mpc' = "submit"
    /\ UNCHANGED <<input, nextSubmit,
                   queue, wk, yielded, outFile, log, ioFailed>>

\* lines 131-134: executor.submit for the next record; it never blocks
Submit ==
    /\ mpc = "submit"
    /\ nextSubmit <= N
    /\ queue' = Append(queue, nextSubmit)
    /\ fut' = [fut EXCEPT ![nextSubmit] = "pending"]
    /\ nextSubmit' = nextSubmit + 1
    /\ UNCHANGED <<input, data, mpc, wk, yielded, processed_data,
                   outFile, sleeps, calls, writes, log, ioFailed, outcome>>

\* line 137: every record is submitted, the as_completed loop starts
AllSubmitted ==
    /\ mpc = "submit"
    /\ nextSubmit > N
    /\ mpc' = "collect"
    /\ UNCHANGED <<input, data, nextSubmit, queue, wk, fut, yielded,
                   processed_data, outFile, sleeps, calls, writes, log, ioFailed,
                   outcome>>

\* line 142: the slot a future's result goes to; arrival counts the futures
\* as_completed has yielded so far, this one included
SlotOfArrival(idx, arrival) == arrival
SlotOfFirst(idx, arrival) == 1
SlotOf(idx, arrival) == idx

\* line 145: what the slot receives when the future returned (a reference)
ResultRef(idx) == idx

\* line 149: what the slot receives when the future raised
FallbackRefNone(idx) == None
FallbackRef(idx) == idx

Collected == {yielded[k] : k \in 1..Len(yielded)}

\* lines 142-145: as_completed yields a finished future that returned
CollectResult ==
    /\ mpc = "collect"
    /\ \E idx \in (1..N) \ Collected :
        LET slot == SlotOf(idx, Len(yielded) + 1) IN
        /\ fut[idx] = "returned"
        /\ processed_data' = [processed_data EXCEPT ![slot] = ResultRef(idx)]
        /\ writes' = [writes EXCEPT ![slot] = @ + 1]
        /\ yielded' = Append(yielded, idx)
    /\ UNCHANGED <<input, data, mpc, nextSubmit, queue, wk, fut,
                   outFile, sleeps, calls, log, ioFailed, outcome>>

\* lines 142-149: as_completed yields a finished future that raised
CollectException ==
    /\ mpc = "collect"
    /\ \E idx \in (1..N) \ Collected :
        LET slot == SlotOf(idx, Len(yielded) + 1) IN
        /\ fut[idx] = "raised"
        /\ log' = log \cup {[line |-> 147, idx |-> idx, id |-> data[idx].id]}
        /\ processed_data' = [processed_data EXCEPT ![slot] = FallbackRef(idx)]
        /\ writes' = [writes EXCEPT ![slot] = @ + 1]
        /\ yielded' = Append(yielded, idx)
    /\ UNCHANGED <<input, data, mpc, nextSubmit, queue, wk, fut,
                   outFile, sleeps, calls, ioFailed, outcome>>

\* lines 129-151: what the main thread waits for before it returns: the
\* as_completed loop has yielded every future, and the exit of the with block
\* (shutdown(wait=True)) has joined the worker threads
DrainedAfterFirst == yielded # <<>> \/ N = 0
Drained ==
    /\ Collected = 1..N
    /\ \A w \in Workers : wk[w].pc = "idle"
    /\ queue = <<>>

\* lines 129, 151: the loop is over, the with block shuts the executor down
\* (shutdown(wait=True) joins the worker threads) and the list is returned
ShutdownAndReturn ==
    /\ mpc = "collect"
    /\ Drained
    /\ mpc' = "returned"
    /\ UNCHANGED <<input, data, nextSubmit, queue, wk, fut, yielded,
                   processed_data, outFile, sleeps, calls, writes, log, ioFailed,
                   outcome>>

\* the record a slot refers to; json.dumps(None) is the line "null"
NullLine == [id |-> 0, summary |-> 0, AI |-> NoAI]
Deref(ref) == IF ref = None THEN NullLine ELSE data[ref]

\* lines 190-192: one line per element of processed_data
WriteOutput ==
    /\ mpc = "returned"
    /\ outFile' = [i \in 1..Len(processed_data) |-> Deref(processed_data[i])]
    /\ mpc' = "done"
    /\ UNCHANGED <<input, data, nextSubmit, queue, wk, fut, yielded,
                   processed_data, sleeps, calls, writes, log, ioFailed, outcome>>

(***************************************************************************)
(* Module start-up, lines 26-33: the pacing delay.                         *)
(***************************************************************************)
DefaultDelay == 5

\* os.environ.get("API_DELAY_SECONDS", 5): the text of the setting, or unset
Unset == [set |-> FALSE, text |-> <<>>]
Setting(text) == [set |-> TRUE, text |-> text]

EnvChars == {"-", "+", WS, "0", "1", LETTER}
EnvSettings ==
    {Unset} \cup {Setting(t) : t \in UNION {[1..k -> EnvChars] : k \in 0..MaxEnvLen}}

\* int(text): surrounding whitespace, one optional sign, decimal digits
Digits == {"0", "1"}
DigitVal(c) == IF c = "1" THEN 1 ELSE 0

RECURSIVE DecimalValue(_)
DecimalValue(ds) ==
    IF ds = <<>> THEN 0
    ELSE 10 * DecimalValue(SubSeq(ds, 1, Len(ds) - 1)) + DigitVal(ds[Len(ds)])

IntOf(text) ==
    LET t == Strip(text)
        signed == t # <<>> /\ t[1] \in {"-", "+"}
        ds == IF signed THEN Tail(t) ELSE t
    IN
    IF ds # <<>> /\ \A k \in 1..Len(ds) : ds[k] \in Digits
    THEN [ok |-> TRUE,
          val |-> IF signed /\ t[1] = "-" THEN 0 - DecimalValue(ds)
                  ELSE DecimalValue(ds)]
    ELSE [ok |-> FALSE, val |-> 0]              \* ValueError

\* line 28: int(os.environ.get("API_DELAY_SECONDS", 5)); nothing catches the
\* ValueError of int, so the import of the module ends there
ReadDelay ==
    /\ spc = "read"
    /\ IF ~envDelay.set
       THEN /\ API_DELAY_SECONDS' = DefaultDelay
            /\ spc' = "validate"
       ELSE IF IntOf(envDelay.text).ok
       THEN /\ API_DELAY_SECONDS' = IntOf(envDelay.text).val
            /\ spc' = "validate"
       ELSE /\ spc' = "aborted"
            /\ UNCHANGED API_DELAY_SECONDS
    /\ UNCHANGED <<pipeline, log, envDelay, dataPath, language, target_file,
                   files, fpc>>

\* lines 31-33: a negative delay is replaced by 5, with a warning
ValidateDelay ==
    /\ spc = "validate"
    /\ IF API_DELAY_SECONDS < 0
       THEN /\ log' = log \cup {[line |-> 32, idx |-> 0, id |-> 0]}
            /\ API_DELAY_SECONDS' = DefaultDelay
       ELSE UNCHANGED <<log, API_DELAY_SECONDS>>
    /\ spc' = "ready"
    /\ UNCHANGED <<pipeline, envDelay, dataPath, language, target_file, files,
                   fpc>>

(***************************************************************************)
(* main, lines 158-168 and 189-192: the input and the output file.  A path *)
(* is a sequence of tokens, one of which stands for the substring .jsonl.  *)
(***************************************************************************)
EXT == ".jsonl"
PathChars == {EXT, "data", ".json"}
Paths == UNION {[1..k -> PathChars] : k \in 1..MaxPathLen}
Languages == {"Chinese", "English"}

\* what str.replace puts in the place of each '.jsonl'
Suffix(lang) == <<"_AI_enhanced_", lang, EXT>>

\* line 159: args.data.replace('.jsonl', f'_AI_enhanced_{language}.jsonl')
RECURSIVE TargetOf(_, _)
TargetOf(path, lang) ==
    IF path = <<>> THEN <<>>
    ELSE (IF Head(path) = EXT THEN Suffix(lang) ELSE <<Head(path)>>)
         \o TargetOf(Tail(path), lang)

\* lines 159-162: derive the target path and remove a file found there
RemoveExisting ==
    /\ fpc = "start"
    /\ LET t == TargetOf(dataPath, language) IN
       /\ target_file' = t
       /\ IF t \in DOMAIN files
          THEN /\ files' = [f \in DOMAIN files \ {t} |-> files[f]]
               /\ log' = log \cup {[line |-> 162, idx |-> 0, id |-> 0]}
          ELSE UNCHANGED <<files, log>>
    /\ fpc' = "read"
    /\ UNCHANGED <<pipeline, envDelay, API_DELAY_SECONDS, spc, dataPath,
                   language>>

\* lines 165-168: open(args.data) raises when the file is not there
ReadInput ==
    /\ fpc = "read"
    /\ fpc' = IF dataPath \in DOMAIN files THEN "process" ELSE "aborted"
    /\ UNCHANGED <<pipeline, log, envDelay, API_DELAY_SECONDS, spc, dataPath,
                   language, target_file, files>>

\* lines 190-192: open(target_file, "w") and one line per record
WriteTarget ==
    /\ fpc = "process"
    /\ files' = [f \in DOMAIN files \cup {target_file} |->
                    IF f = target_file THEN "output" ELSE files[f]]
    /\ fpc' = "written"
    /\ UNCHANGED <<pipeline, log, envDelay, API_DELAY_SECONDS, spc, dataPath,
                   language, target_file>>

(***************************************************************************)
(* Specifications.  Spec: every input file up to MaxItems records, every   *)
(* worker count, a few outcomes per call.  SpecItem: one record, one       *)
(* worker, every exception text up to MaxMsgLen tokens.  SpecDedup: the    *)
(* deduplication alone, on every input file up to MaxRaw records.          *)
(***************************************************************************)
\* the state of the pipeline before main has done anything
PipelineInit(inputs, workerCounts) ==
    /\ raw \in inputs
    /\ pos = 1
    /\ seen_ids = {}
    /\ unique_data = <<>>
    /\ maxWorkers \in workerCounts
    /\ data = <<>>
    /\ mpc = "dedup"
    /\ nextSubmit = 1
    /\ queue = <<>>
    /\ wk = [w \in Workers |-> IdleWorker]
    /\ fut = <<>>
    /\ yielded = <<>>
    /\ processed_data = <<>>
    /\ outFile = <<>>
    /\ sleeps = <<>>
    /\ calls = <<>>
    /\ writes = <<>>
    /\ ioFailed = {}
    /\ outcome = <<>>

\* start-up with API_DELAY_SECONDS unset, as it ends at line 33
StartupDone ==
    /\ envDelay = Unset
    /\ API_DELAY_SECONDS = DefaultDelay
    /\ spc = "ready"

\* the files of a run on data.jsonl, as they are when the records are read
FilesRead ==
    /\ dataPath = <<"data", EXT>>
    /\ language = "Chinese"
    /\ target_file = TargetOf(dataPath, language)
    /\ files = (dataPath :> "input")
    /\ fpc = "process"

InitWith(inputs, workerCounts) ==
    /\ PipelineInit(inputs, workerCounts)
    /\ StartupDone
    /\ FilesRead
    /\ log = {}

Init == InitWith(RawInputs(MaxItems), 1..MaxWorkers)

InitItem == InitWith({<<Record(id, 1)>> : id \in 1..MaxId}, {1})

Next ==
    \/ DedupIter
    \/ DedupDone
    \/ Submit
    \/ AllSubmitted
    \/ CollectResult
    \/ CollectException
    \/ ShutdownAndReturn
    \/ WriteOutput
    \/ \E w \in Workers : Take(w)
    \/ \E w \in Workers : Invoke(w, PipeOutcomes)
    \/ \E w \in Workers : Print76(w)
    \/ \E w \in Workers : Print89(w)
    \/ \E w \in Workers : Sleep(w)
    \/ \E w \in Workers : Return(w)

NextItem ==
    \/ DedupIter
    \/ DedupDone
    \/ Submit
    \/ AllSubmitted
    \/ CollectResult
    \/ CollectException
    \/ ShutdownAndReturn
    \/ WriteOutput
    \/ \E w \in Workers : Take(w)
    \/ \E w \in Workers : Invoke(w, ItemOutcomes)
    \/ \E w \in Workers : Print76(w)
    \/ \E w \in Workers : Print89(w)
    \/ \E w \in Workers : Sleep(w)
    \/ \E w \in Workers : Return(w)

InitDedup == InitWith(RawInputs(MaxRaw), {1})

NextDedup ==
    \/ DedupIter
    \/ DedupDone

Spec == Init /\ [][Next]_vars

SpecDedup == InitDedup /\ [][NextDedup]_vars

SpecItem == InitItem /\ [][NextItem]_vars

\* start-up alone, for every API_DELAY_SECONDS setting up to MaxEnvLen
InitConfig ==
    /\ PipelineInit({<<>>}, {1})
    /\ FilesRead
    /\ log = {}
    /\ envDelay \in EnvSettings
    /\ API_DELAY_SECONDS = DefaultDelay
    /\ spc = "read"

NextConfig ==
    \/ ReadDelay
    \/ ValidateDelay

SpecConfig == InitConfig /\ [][NextConfig]_vars

\* the files alone, for every --data path up to MaxPathLen tokens; the
\* input file exists, a file at the derived path may exist from an older run
InitFiles ==
    /\ PipelineInit({<<>>}, {1})
    /\ StartupDone
    /\ log = {}
    /\ dataPath \in Paths
    /\ language \in Languages
    /\ target_file = <<>>
    /\ \E old \in BOOLEAN :
          files = IF old /\ TargetOf(dataPath, language) # dataPath
                  THEN (dataPath :> "input") @@
                       (TargetOf(dataPath, language) :> "old")
                  ELSE (dataPath :> "input")
    /\ fpc = "start"

NextFiles ==
    \/ RemoveExisting
    \/ ReadInput
    \/ WriteTarget

SpecFiles == InitFiles /\ [][NextFiles]_vars

\* the pipeline on records of distinct ids, with the delay unset or set beyond
\* what time.sleep accepts, and every thread scheduled fairly
LongDelayText == <<"1", "0", "1">>
InitLive ==
    /\ PipelineInit({[i \in 1..k |-> Record(i, i)] : k \in 0..MaxItems},
                    1..MaxWorkers)
    /\ FilesRead
    /\ log = {}
    /\ envDelay \in {Unset, Setting(LongDelayText)}
    /\ API_DELAY_SECONDS = IF envDelay.set THEN IntOf(envDelay.text).val
                           ELSE DefaultDelay
    /\ spc = "ready"

SpecLive == InitLive /\ [][Next]_vars /\ WF_vars(Next)

(***************************************************************************)
(* Properties.                                                             *)
(***************************************************************************)
Items == 1..N
Finished(i) == fut[i] \in {"returned", "raised"}
IsParseFailure(i) == outcome[i].kind = "OutputParserException"
IsOtherFailure(i) == outcome[i].kind = "Exception"
Repairable(i) ==
    IsParseFailure(i) /\ HasMarker(outcome[i].msg) /\ Repair(outcome[i].msg).ok
Unrepairable(i) ==
    IsParseFailure(i)
    /\ (~HasMarker(outcome[i].msg) \/ ~Repair(outcome[i].msg).ok)
Logged(i, line) == \E e \in log : e.idx = i /\ e.line = line
Running == {i \in Items : fut[i] = "running"}

\* C1: every call of process_single_item that returns has made exactly one
\* time.sleep, whichever path it took.
C1_SleepsExactlyOnce ==
    \A i \in Items : fut[i] = "returned" => Len(sleeps[i]) = 1

\* C2: the returned list, and the file written from it, hold at position i
\* the record (id and summary) at position i of the deduplicated input,
\* whatever the order in which the futures completed.
C2_OutputOrderIsInputOrder ==
    /\ mpc \in {"returned", "done"} =>
         \A i \in 1..Len(unique_data) :
            /\ i \in DOMAIN processed_data
            /\ Deref(processed_data[i]).id = unique_data[i].id
            /\ Deref(processed_data[i]).summary = unique_data[i].summary
    /\ mpc = "done" =>
         \A i \in 1..Len(unique_data) :
            /\ i \in DOMAIN outFile
            /\ outFile[i].id = unique_data[i].id
            /\ outFile[i].summary = unique_data[i].summary

\* two records, two workers, the second record's future was yielded first
C2_Witness ==
    /\ mpc = "done"
    /\ maxWorkers = 2
    /\ yielded = <<2, 1>>
    /\ unique_data[1].id # unique_data[2].id

\* C3: when the pipeline completes the result has as many records as the
\* deduplicated input and no slot is None, whatever each call did.
C3_OneRecordPerInput ==
    /\ mpc \in {"returned", "done"} =>
         /\ Len(processed_data) = Len(unique_data)
         /\ \A i \in DOMAIN processed_data : processed_data[i] # None
    /\ mpc = "done" =>
         /\ Len(outFile) = Len(unique_data)
         /\ \A i \in DOMAIN outFile : outFile[i] # NullLine

\* a completed run in which one call raised and another returned
C3_Witness ==
    /\ mpc = "done"
    /\ \E i, j \in Items : fut[i] = "raised" /\ fut[j] = "returned"

\* C4: deduplication keeps exactly the first record of every id, in input
\* order.
FirstOccurrences ==
    {i \in 1..Len(raw) : \A j \in 1..(i-1) : raw[j].id # raw[i].id}
KthFirst(k) ==
    CHOOSE i \in FirstOccurrences :
        Cardinality({j \in FirstOccurrences : j <= i}) = k
C4_DedupKeepsFirstOccurrences ==
    mpc # "dedup" =>
        /\ Len(unique_data) = Cardinality(FirstOccurrences)
        /\ \A k \in 1..Len(unique_data) : unique_data[k] = raw[KthFirst(k)]
        /\ Len(data) = Len(unique_data)
        /\ \A k \in 1..Len(data) :
              /\ data[k].id = raw[KthFirst(k)].id
              /\ data[k].summary = raw[KthFirst(k)].summary

\* the ids 1, 1, 2 have been deduplicated to the first and the third record
C4_Witness ==
    /\ mpc # "dedup"
    /\ Len(raw) = 3
    /\ raw[1].id = 1 /\ raw[2].id = 1 /\ raw[3].id = 2
    /\ unique_data = <<raw[1], raw[3]>>

C6_OutputAINonNull ==
    mpc = "done" =>
        \A i \in DOMAIN outFile :
            fut[i] = "returned" => outFile[i].AI.t \in {"obj", "str"}

C8_FailedRepairSentinelAndLogged ==
    \A i \in Items :
        (fut[i] = "returned" /\ Unrepairable(i)) =>
            /\ data[i].AI =
                 ObjV(<<"Error">>, <<"Error">>, <<"Error">>, <<"Error">>,
                      <<"Error">>)
            /\ Logged(i, 76)

C10_AtMostMaxWorkersInProgress ==
    /\ [](Cardinality(Running) <= maxWorkers)
    /\ [][(Running' \ Running # {}) => Cardinality(Running) < maxWorkers]_vars

\* every worker is busy while a submitted work item waits in the queue
C10_Witness ==
    /\ Cardinality(Running) = maxWorkers
    /\ queue # <<>>

\* C11: for every API_DELAY_SECONDS setting, start-up ends (it does not
\* abort) with a non-negative delay: the configured value when the setting is
\* unset or a non-negative integer, otherwise 5 with a warning on stderr.
C11_DelayAlwaysValid ==
    spc \in {"ready", "aborted"} =>
        /\ spc = "ready"
        /\ API_DELAY_SECONDS >= 0
        /\ IF ~envDelay.set THEN API_DELAY_SECONDS = 5
           ELSE IF IntOf(envDelay.text).ok /\ IntOf(envDelay.text).val >= 0
           THEN API_DELAY_SECONDS = IntOf(envDelay.text).val
           ELSE API_DELAY_SECONDS = 5 /\ \E e \in log : e.line = 32

\* C19: the derived output path differs from the input path, and the input
\* file is on disk with its own content at every moment of the run.
C19_InputFileNeverClobbered ==
    /\ fpc # "start" => target_file # dataPath
    /\ dataPath \in DOMAIN files
    /\ files[dataPath] = "input"

\* C12: process_all_items returns, and the file is written, only when every
\* submitted call has finished, its sleeps included: nothing is queued or
\* running at that moment, and no worker does anything afterwards.
C12_ReturnsOnlyWhenDrained ==
    /\ [](mpc \in {"returned", "done"} =>
            /\ \A i \in Items : Finished(i)
            /\ \A w \in Workers : wk[w].pc = "idle"
            /\ queue = <<>>)
    /\ [][(mpc \in {"returned", "done"}) =>
            (wk' = wk /\ fut' = fut /\ data' = data /\ sleeps' = sleeps
             /\ calls' = calls)]_vars

\* the list has been returned after two calls that ran on two workers
C12_Witness ==
    /\ mpc = "returned"
    /\ N = 2
    /\ maxWorkers = 2
    /\ \A i \in Items : sleeps[i] # <<>>

\* C13: when a call raised out of its future, the slot of that index receives
\* the record of that index as it was read (id and summary of the
\* deduplicated input, no AI key), no other slot changes in that step, and
\* the run goes on: the main thread is not stuck before the file is written.
UntouchedRecord(i) ==
    [id |-> unique_data[i].id, summary |-> unique_data[i].summary, AI |-> NoAI]
C13_FallbackKeepsOriginalRecord ==
    /\ [](\A i \in Collected :
            fut[i] = "raised" =>
                /\ processed_data[i] = i
                /\ Deref(processed_data[i]) = UntouchedRecord(i)
                /\ mpc = "done" => outFile[i] = UntouchedRecord(i))
    /\ []((mpc # "done" /\ \E i \in Items : fut[i] = "raised") => ENABLED Next)
    /\ [][\A i \in Items :
            (fut[i] = "raised" /\ yielded' = Append(yielded, i)) =>
                \A j \in Items \ {i} : processed_data'[j] = processed_data[j]]_vars

\* C14: every slot is assigned at most once, exactly once by the end, by the
\* step that handles the future of its own index; a filled slot never changes
\* and every assignment lands inside the list.
C14_EachSlotWrittenOnce ==
    /\ [](/\ DOMAIN processed_data = 1..N
          /\ \A i \in Items :
                /\ writes[i] <= 1
                /\ writes[i] = 1 <=> i \in Collected
                /\ processed_data[i] # None <=> writes[i] = 1
                /\ processed_data[i] \in {None, i}
                /\ mpc \in {"returned", "done"} => writes[i] = 1)
    /\ [][\A i \in DOMAIN processed_data :
            processed_data[i] # None => processed_data'[i] = processed_data[i]]_vars

\* the second slot is filled while the first is still empty
C14_Witness ==
    /\ mpc = "collect"
    /\ processed_data = <<None, 2>>
    /\ writes = <<0, 1>>

\* C15: chain.invoke is called exactly once for every record that survives
\* deduplication (the first line of each id) and for no other line; an index
\* is queued once, and no outcome puts it back or calls again.
InQueue(i) == \E k \in 1..Len(queue) : queue[k] = i
C15_CalledExactlyOnce ==
    /\ [](\A i \in Items :
            /\ calls[i] <= 1
            /\ fut[i] \in {"new", "pending"} => calls[i] = 0
            /\ Finished(i) => calls[i] = 1
            /\ InQueue(i) <=> fut[i] = "pending"
            /\ Cardinality({k \in 1..Len(queue) : queue[k] = i}) <= 1)
    /\ [](mpc = "done" =>
            /\ \A k \in 1..Len(raw) :
                  Cardinality({i \in Items : data[i].id = raw[k].id}) = 1
            /\ \A i \in Items :
                  /\ calls[i] = 1
                  /\ Record(data[i].id, data[i].summary) = raw[KthFirst(i)])
    /\ [][\A i \in Items :
            /\ fut[i] \notin {"new", "pending"} =>
                  (i \in DOMAIN fut' /\ fut'[i] \notin {"new", "pending"})
            /\ Finished(i) => (calls'[i] = calls[i] /\ fut'[i] = fut[i])]_vars

\* a duplicate line was dropped and the call of the only record raised out of
\* its future: one call was made
C15_Witness ==
    /\ mpc = "done"
    /\ Len(raw) = 2
    /\ N = 1
    /\ fut[1] = "raised"
    /\ calls[1] = 1

\* C16: a worker holds one item at a time; it sleeps only after chain.invoke
\* has ended and the annotation of its path is assigned, returns only after a
\* sleep, and starts the call of another item only from the idle state.
Busy(w) == wk[w].pc # "idle"
C16_OneItemEndToEnd ==
    /\ [](\A w \in Workers :
            /\ Busy(w) =>
                  /\ fut[wk[w].idx] = "running"
                  /\ \A v \in Workers \ {w} : Busy(v) => wk[v].idx # wk[w].idx
            /\ wk[w].pc = "invoke" =>
                  calls[wk[w].idx] = 0 /\ sleeps[wk[w].idx] = <<>>
            /\ wk[w].pc \in SleepPcs =>
                  /\ calls[wk[w].idx] = 1
                  /\ outcome[wk[w].idx] # NotCalled
                  /\ data[wk[w].idx].AI # NoAI
            /\ wk[w].pc = "return" => sleeps[wk[w].idx] # <<>>)
    /\ [](\A i \in Items : fut[i] = "returned" => sleeps[i] # <<>>)
    /\ [][\A w \in Workers :
            /\ (w \in DOMAIN wk' /\ wk'[w].pc = "invoke" /\ wk[w].pc # "invoke")
                  => wk[w].pc = "idle"
            /\ (Busy(w) /\ wk'[w].pc # "idle") => wk'[w].idx = wk[w].idx
            /\ (Busy(w) /\ wk'[w].pc = "idle")
                  => wk[w].pc \in {"return", "print76", "print89"}]_vars

\* the only worker has returned the first record after its sleep and is about
\* to call chain.invoke for the second
C16_Witness ==
    /\ maxWorkers = 1
    /\ N = 2
    /\ fut[1] = "returned"
    /\ sleeps[1] # <<>>
    /\ wk[1] = [pc |-> "invoke", idx |-> 2]

\* C17: a step changes a record only in its AI key, and only the record of
\* the one worker that holds it; a record in a slot changes no more; a slot
\* changes only when the future of its own index is yielded.
Holders(j) == {w \in Workers : Busy(w) /\ wk[w].idx = j}
C17_OnlyOwnRecordAndSlot ==
    [][\A j \in DOMAIN data :
            /\ j \in DOMAIN data'
            /\ data'[j].id = data[j].id
            /\ data'[j].summary = data[j].summary
            /\ data'[j] # data[j] =>
                  /\ Cardinality(Holders(j)) = 1
                  /\ j \notin Collected
                  /\ \A k \in DOMAIN data \ {j} : data'[k] = data[k]
            /\ processed_data'[j] # processed_data[j] =>
                  /\ yielded' = Append(yielded, j)
                  /\ processed_data'[j] = j
                  /\ data' = data]_vars

\* two workers hold different records: one is annotated and sleeping, the
\* other has not been called yet
C17_Witness ==
    /\ N = 2
    /\ maxWorkers = 2
    /\ wk[1].pc \in SleepPcs
    /\ wk[2].pc = "invoke"
    /\ data[wk[1].idx].AI # NoAI
    /\ data[wk[2].idx].AI = NoAI

\* C18: with fair scheduling every run ends with the file written and every
\* slot filled, and no state before that is without a next step.
Completed ==
    /\ mpc = "done"
    /\ Len(processed_data) = Len(unique_data)
    /\ \A i \in DOMAIN processed_data : processed_data[i] # None
    /\ Len(outFile) = Len(unique_data)
C18_EventuallyCompletes ==
    /\ <>Completed
    /\ [](mpc # "done" => ENABLED Next)

\* two records went through the only worker one after the other
C18_Witness ==
    /\ Completed
    /\ maxWorkers = 1
    /\ N = 2
    /\ yielded = <<1, 2>>

====
